---- MODULE Spec2Model ----
(***************************************************************************)
(* Model of rma/application.py (redis-memory-analyzer): key-name           *)
(* normalisation (ptransform and the ':US:' mask), grouping of scanned     *)
(* records by glob template, and the run() pipeline of RmaApplication.     *)
(*                                                                         *)
(* Key names are sequences of one-character strings, so that split, join,  *)
(* startswith, endswith, re.sub and fnmatch are computed character by      *)
(* character as Python computes them.                                      *)
(***************************************************************************)
EXTENDS Integers, Sequences, FiniteSets, TLC

(***************************************************************************)
(* String literals of application.py                                       *)
(***************************************************************************)
\* 'celery-task-meta' (line 19)
CeleryPrefix == <<"c", "e", "l", "e", "r", "y", "-", "t", "a", "s", "k", "-", "m", "e", "t", "a">>
\* 'qo_cli.aff_aggregations.aggregate_aff_aname_aname' (line 22)
AggregatePrefix == <<"q", "o", "_", "c", "l", "i", ".", "a", "f", "f", "_", "a", "g", "g", "r", "e", "g", "a", "t", "i", "o", "n", "s", ".", "a", "g", "g", "r", "e", "g", "a", "t", "e", "_", "a", "f", "f", "_", "a", "n", "a", "m", "e", "_", "a", "n", "a", "m", "e">>
\* '_trigger_queue_user_job' (line 25)
TriggerSuffix == <<"_", "t", "r", "i", "g", "g", "e", "r", "_", "q", "u", "e", "u", "e", "_", "u", "s", "e", "r", "_", "j", "o", "b">>
\* '.reply.celery.pidbox' (line 28)
PidboxSuffix == <<".", "r", "e", "p", "l", "y", ".", "c", "e", "l", "e", "r", "y", ".", "p", "i", "d", "b", "o", "x">>
\* '_user_queue_user_job' (line 31)
UserQueueSuffix == <<"_", "u", "s", "e", "r", "_", "q", "u", "e", "u", "e", "_", "u", "s", "e", "r", "_", "j", "o", "b">>
\* the literal prefix ':US:' of the pattern r':US:[^:]+' (line 193)
UsMarker == <<":", "U", "S", ":">>
\* the replacement ':US:1' of re.sub (line 194)
UsReplacement == <<":", "U", "S", ":", "1">>

(***************************************************************************)
(* Python str and list primitives                                          *)
(***************************************************************************)
\* s[i:] for a 0-based i >= 0: the elements after the first i
DropFirst(s, i) == IF i >= Len(s) THEN <<>> ELSE SubSeq(s, i + 1, Len(s))

\* s[0:i] for i >= 0: the first i elements, or all of s when it is shorter
TakeFirst(s, i) == IF i >= Len(s) THEN s ELSE SubSeq(s, 1, i)

\* str.startswith
StartsWith(s, p) == Len(s) >= Len(p) /\ SubSeq(s, 1, Len(p)) = p

\* str.endswith
EndsWith(s, p) == Len(s) >= Len(p) /\ SubSeq(s, Len(s) - Len(p) + 1, Len(s)) = p

\* str.split(c) for a one-character separator: always at least one segment
RECURSIVE Split(_, _)
Split(s, c) ==
    IF \A i \in 1..Len(s) : s[i] # c
    THEN <<s>>
    ELSE LET i == CHOOSE k \in 1..Len(s) :
                      s[k] = c /\ \A j \in 1..(k - 1) : s[j] # c
         IN <<TakeFirst(s, i - 1)>> \o Split(DropFirst(s, i), c)

\* c.join(parts)
RECURSIVE Join(_, _)
Join(parts, c) ==
    IF parts = <<>> THEN <<>>
    ELSE IF Len(parts) = 1 THEN parts[1]
    ELSE parts[1] \o <<c>> \o Join(Tail(parts), c)

\* the least element of a non-empty set of integers
Min(S) == CHOOSE x \in S : \A y \in S : x <= y

\* the last index of the run of non-':' characters of s that starts at index k
\* (the greedy [^:]+ of the pattern, s[k] being its first character)
RunEnd(s, k) ==
    LET colons == { j \in k..Len(s) : s[j] = ":" }
    IN IF colons = {} THEN Len(s) ELSE Min(colons) - 1

\* re.sub with the pattern r'US:[^:]+' (its leading ':' lost) and the same
\* replacement ':US:1'
RECURSIVE re_sub_US_nocolon(_)
re_sub_US_nocolon(s) ==
    LET starts == { i \in 1..(Len(s) - 3) :
                        SubSeq(s, i, i + 2) = DropFirst(UsMarker, 1) /\ s[i + 3] # ":" }
    IN IF starts = {} THEN s
       ELSE LET i == Min(starts)
            IN TakeFirst(s, i - 1) \o UsReplacement
               \o re_sub_US_nocolon(DropFirst(s, RunEnd(s, i + 3)))

\* re.sub(r':US:[^:]+', ':US:1', s) (lines 193-194): the leftmost match of
\* ':US:' followed by at least one non-':' character, taken greedily, is
\* replaced, and the search goes on after the match
RECURSIVE re_sub_US(_)
re_sub_US(s) ==
    LET starts == { i \in 1..(Len(s) - 4) :
                        SubSeq(s, i, i + 3) = UsMarker /\ s[i + 4] # ":" }
    IN IF starts = {} THEN s
       ELSE LET i == Min(starts)
            IN TakeFirst(s, i - 1) \o UsReplacement
               \o re_sub_US(DropFirst(s, RunEnd(s, i + 4)))

\* ptransform with the celery branch cutting after five segments instead of
\* three
ptransform_cut5(nm) ==
    IF StartsWith(nm, CeleryPrefix)
    THEN LET spl == Split(nm, "-")
         IN Join(TakeFirst(spl, 5), "-") \o <<":">> \o Join(DropFirst(spl, 5), "-")
    ELSE IF StartsWith(nm, AggregatePrefix)
    THEN LET spl == Split(nm, "-")
         IN Join(TakeFirst(spl, 1), "-") \o <<":">> \o Join(DropFirst(spl, 1), "-")
    ELSE IF EndsWith(nm, TriggerSuffix)
    THEN LET spl == Split(nm, "_")
         IN Join(DropFirst(spl, 1), "_") \o <<":">> \o Join(TakeFirst(spl, 1), "_")
    ELSE IF EndsWith(nm, PidboxSuffix)
    THEN LET spl == Split(nm, ".")
         IN Join(DropFirst(spl, 1), ".") \o <<":">> \o spl[1]
    ELSE IF EndsWith(nm, UserQueueSuffix)
    THEN LET spl == Split(nm, "_")
         IN Join(DropFirst(spl, 1), "_") \o <<":">> \o spl[1]
    ELSE nm

\* ptransform (lines 18-36)
ptransform(nm) ==
    IF StartsWith(nm, CeleryPrefix)
    THEN LET spl == Split(nm, "-")
         IN Join(TakeFirst(spl, 3), "-") \o <<":">> \o Join(DropFirst(spl, 3), "-")
    ELSE IF StartsWith(nm, AggregatePrefix)
    THEN LET spl == Split(nm, "-")
         IN Join(TakeFirst(spl, 1), "-") \o <<":">> \o Join(DropFirst(spl, 1), "-")
    ELSE IF EndsWith(nm, TriggerSuffix)
    THEN LET spl == Split(nm, "_")
         IN Join(DropFirst(spl, 1), "_") \o <<":">> \o Join(TakeFirst(spl, 1), "_")
    ELSE IF EndsWith(nm, PidboxSuffix)
    THEN LET spl == Split(nm, ".")
         IN Join(DropFirst(spl, 1), ".") \o <<":">> \o spl[1]
    ELSE IF EndsWith(nm, UserQueueSuffix)
    THEN LET spl == Split(nm, "_")
         IN Join(DropFirst(spl, 1), "_") \o <<":">> \o spl[1]
    ELSE nm

\* whether one of the five special cases of ptransform applies to nm
Transposes(nm) ==
    \/ StartsWith(nm, CeleryPrefix)
    \/ StartsWith(nm, AggregatePrefix)
    \/ EndsWith(nm, TriggerSuffix)
    \/ EndsWith(nm, PidboxSuffix)
    \/ EndsWith(nm, UserQueueSuffix)

\* the normalised name handed to the splitter (line 194)
normalize(nm) == ptransform(re_sub_US(nm))

(***************************************************************************)
(* fnmatch.fnmatch(name, pat) for patterns over '*', '?' and literal       *)
(* characters (no name of the model holds a '['); os.path.normcase is the  *)
(* identity on POSIX                                                       *)
(***************************************************************************)
RECURSIVE fnmatch(_, _)
fnmatch(name, pat) ==
    IF pat = <<>> THEN name = <<>>
    ELSE IF pat[1] = "*"
         THEN \E k \in 0..Len(name) : fnmatch(DropFirst(name, k), Tail(pat))
    ELSE IF pat[1] = "?"
         THEN name # <<>> /\ fnmatch(Tail(name), Tail(pat))
    ELSE name # <<>> /\ name[1] = pat[1] /\ fnmatch(Tail(name), Tail(pat))

(***************************************************************************)
(* Types and rules                                                         *)
(***************************************************************************)
\* REDIS_TYPE_ID_ALL; a type id is written as the name type_id_to_redis_type
\* gives it
Types == {"string", "hash", "list", "set", "zset"}

\* the rules init_types_rules appends to each type's list, in the order of
\* its append calls (lines 110-120)
RuleTable ==
    [t \in Types |->
        CASE t = "string" -> <<"KeyString", "ValueString">>
          [] t = "hash" -> <<"KeyString", "Hash">>
          [] t = "list" -> <<"KeyString", "List">>
          [] t = "set" -> <<"KeyString", "Set">>
          [] t = "zset" -> <<"KeyString">>]

\* init_types_rules (lines 109-120): appends to the lists of the class
\* attribute types_rules
init_types_rules(tr) == [t \in Types |-> tr[t] \o RuleTable[t]]

\* init_globals (lines 106-107): appends to the class attribute globals
init_globals(gl) == Append(gl, "GlobalKeySpace")

\* what rule.analyze(keys=aggregate_patterns, total=total_keys) returns: a
\* value that names the rule and the arguments it was given
Analyze(rule, groups, total) == [rule |-> rule, keys |-> groups, total |-> total]

(***************************************************************************)
(* check_redis_version (lines 62-70)                                       *)
(***************************************************************************)
Digits == {"0", "1", "2", "3", "4", "5", "6", "7", "8", "9"}

DigitVal(c) ==
    CASE c = "0" -> 0 [] c = "1" -> 1 [] c = "2" -> 2 [] c = "3" -> 3
      [] c = "4" -> 4 [] c = "5" -> 5 [] c = "6" -> 6 [] c = "7" -> 7
      [] c = "8" -> 8 [] c = "9" -> 9

\* whether int(part) returns for a part made of the characters of the model:
\* a non-empty run of digits (otherwise int raises ValueError)
IntParses(part) == part # <<>> /\ \A i \in 1..Len(part) : part[i] \in Digits

\* int(part) for a run of digits
RECURSIVE IntOf(_)
IntOf(part) ==
    IF part = <<>> THEN 0
    ELSE 10 * IntOf(TakeFirst(part, Len(part) - 1)) + DigitVal(part[Len(part)])

\* tuple(map(int, version_str.split('.'))) raises ValueError (line 65)
VersionValueError(version_str) ==
    \E i \in 1..Len(Split(version_str, ".")) : ~IntParses(Split(version_str, ".")[i])

\* the tuple of line 65, when every part parses
VersionTuple(version_str) ==
    [i \in 1..Len(Split(version_str, ".")) |-> IntOf(Split(version_str, ".")[i])]

\* version[1] is read (version[0] == 2) and is missing: IndexError (line 67)
VersionIndexError(version_str) ==
    /\ ~VersionValueError(version_str)
    /\ VersionTuple(version_str)[1] = 2
    /\ Len(VersionTuple(version_str)) < 2

\* the condition of line 67 with major >= 2 in place of major > 2
check_redis_version_ge(version_str) ==
    LET version == VersionTuple(version_str)
    IN version[1] >= 2 \/ (version[1] = 2 /\ version[2] >= 6)

\* check_redis_version (lines 62-70), for a version string on which it
\* raises nothing
check_redis_version(version_str) ==
    LET version == VersionTuple(version_str)
    IN version[1] > 2 \/ (version[1] = 2 /\ version[2] >= 6)

(***************************************************************************)
(* self.limit (line 94)                                                    *)
(***************************************************************************)
\* sys.maxsize, held as the largest integer TLC represents: it is only ever
\* compared with a key count
SysMaxSize == 2147483647

\* self.limit = limit if limit != 0 else sys.maxsize (line 94)
LimitOf(limit) == IF limit # 0 THEN limit ELSE SysMaxSize

(***************************************************************************)
(* The pattern deriver, SimpleSplitter(separator).split(names): its code   *)
(* is not in application.py.  It returns a set of templates, each derived  *)
(* from a name by replacing some of its separator-delimited segments by    *)
(* '*', one template at least for every name.                              *)
(***************************************************************************)
Separator == ":"

Generalizations(name) ==
    LET segs == Split(name, Separator)
    IN { Join([i \in 1..Len(segs) |-> IF i \in W THEN <<"*">> ELSE segs[i]], Separator) :
            W \in SUBSET (1..Len(segs)) }

\* the sets of templates the splitter may return for a sequence of names
SplitterResults(names) ==
    LET S == { names[i] : i \in 1..Len(names) }
        All == UNION { Generalizations(n) : n \in S }
    IN { { f[n] : n \in S } :
            f \in { g \in [S -> All] : \A n \in S : g[n] \in Generalizations(n) } }

\* the orders in which a set may be iterated
Orders(T) ==
    { o \in [1..Cardinality(T) -> T] : \A i, j \in 1..Cardinality(T) : o[i] = o[j] => i = j }

(***************************************************************************)
(* get_pattern_aggregated_data (lines 185-204)                             *)
(***************************************************************************)
\* the names handed to the splitter (line 194): masked, then transposed
SplitterInput(data) == [i \in 1..Len(data) |-> normalize(data[i].name)]

\* the test of the filter of line 201: the transposed raw name against the
\* template
Member(obj, pattern) == fnmatch(ptransform(obj.name), pattern)

\* the dict built by lines 197-202 for the templates in iteration order: a
\* sequence of (pattern, members) in the dict's insertion order
get_pattern_aggregated_data(data, split_patterns) ==
    [i \in 1..Len(split_patterns) |->
        [pattern |-> split_patterns[i],
         members |-> LET Keep(obj) == Member(obj, split_patterns[i])
                     IN SelectSeq(data, Keep)]]

\* every value get_pattern_aggregated_data may return for data
GroupingsOf(data) ==
    { get_pattern_aggregated_data(data, o) :
        o \in UNION { Orders(T) : T \in SplitterResults(SplitterInput(data)) } }

\* the dict comprehension of line 136 over the type buckets, in dict order
RECURSIVE AggregateAll(_)
AggregateAll(ks) ==
    IF ks = <<>> THEN { <<>> }
    ELSE { <<[type |-> Head(ks).type, groups |-> g]>> \o rest :
             g \in GroupingsOf(Head(ks).records), rest \in AggregateAll(Tail(ks)) }

(***************************************************************************)
(* do_scanner (lines 157-169)                                              *)
(***************************************************************************)
\* floored_percentage(count / total, 2), in hundredths of a percent: the
\* helper is not in application.py
floored_percentage(count, total) == (count * 10000) \div total

\* keys.sort(key=lambda x: x[1], reverse=True) that puts a row before the rows
\* of equal count
RECURSIVE sort_rows_unstable(_)
sort_rows_unstable(rows) ==
    IF rows = <<>> THEN <<>>
    ELSE LET sorted == sort_rows_unstable(TakeFirst(rows, Len(rows) - 1))
             x == rows[Len(rows)]
             before == { i \in 1..Len(sorted) : sorted[i].count > x.count }
         IN TakeFirst(sorted, Cardinality(before)) \o <<x>>
            \o DropFirst(sorted, Cardinality(before))

\* keys.sort(key=lambda x: x[1], reverse=True) (line 167): list.sort is
\* stable, and with reverse=True rows of equal count keep their order
RECURSIVE sort_rows(_)
sort_rows(rows) ==
    IF rows = <<>> THEN <<>>
    ELSE LET sorted == sort_rows(TakeFirst(rows, Len(rows) - 1))
             x == rows[Len(rows)]
             before == { i \in 1..Len(sorted) : sorted[i].count >= x.count }
         IN TakeFirst(sorted, Cardinality(before)) \o <<x>>
            \o DropFirst(sorted, Cardinality(before))

\* the (type, pattern, members) triples in the order the two loops of lines
\* 160-164 visit them
RECURSIVE Flatten(_)
Flatten(res) ==
    IF res = <<>> THEN <<>>
    ELSE [i \in 1..Len(Head(res).groups) |->
             [type |-> Head(res).type,
              pattern |-> Head(res).groups[i].pattern,
              members |-> Head(res).groups[i].members]]
         \o Flatten(Tail(res))

\* lines 166-167 for the visited triples: append a row, sort the list
RECURSIVE census_rows(_, _)
census_rows(items, total) ==
    IF items = <<>> THEN <<>>
    ELSE LET it == items[Len(items)]
         IN sort_rows(Append(census_rows(TakeFirst(items, Len(items) - 1), total),
                [name |-> it.pattern,
                 count |-> Len(it.members),
                 type |-> it.type,
                 percent |-> floored_percentage(Len(it.members), total)]))

\* total taken from the store's key count alone
census_total_dbsize(dbsize, limit) == dbsize

\* total of line 159: min(r.dbsize(), self.limit)
census_total(dbsize, limit) == IF dbsize < limit THEN dbsize ELSE limit

(***************************************************************************)
(* do_ram (lines 171-183)                                                  *)
(***************************************************************************)
\* d[k] = v on a dict
Put(d, k, v) == [x \in (DOMAIN d) \cup {k} |-> IF x = k THEN v ELSE d[x]]

\* total_keys of line 179
RECURSIVE total_keys(_)
total_keys(groups) ==
    IF groups = <<>> THEN 0 ELSE Len(Head(groups).members) + total_keys(Tail(groups))

\* one pass of the loop body, lines 179-181, that keeps an entry already
\* stored under the type instead of replacing it
analyze_and_store_keep_first(acc, redis_type, rule, groups) ==
    [ret |-> IF redis_type \in DOMAIN acc.ret THEN acc.ret
             ELSE Put(acc.ret, redis_type, Analyze(rule, groups, total_keys(groups))),
     calls |-> Append(acc.calls, [ev |-> "analyze", type |-> redis_type, rule |-> rule])]

\* one pass of the loop body, lines 179-181: the rule is invoked and its
\* result is stored under the type; acc holds the dict ret and the calls made
analyze_and_store(acc, redis_type, rule, groups) ==
    [ret |-> Put(acc.ret, redis_type, Analyze(rule, groups, total_keys(groups))),
     calls |-> Append(acc.calls, [ev |-> "analyze", type |-> redis_type, rule |-> rule])]

\* the loop of line 178 over the rules of one type, in list order
RECURSIVE run_rules(_, _, _, _)
run_rules(acc, redis_type, rules, groups) ==
    IF rules = <<>> THEN acc
    ELSE run_rules(analyze_and_store(acc, redis_type, Head(rules), groups),
                   redis_type, Tail(rules), groups)

\* the loop of lines 174-181 over the type buckets, in dict order
RECURSIVE ram_loop(_, _, _, _)
ram_loop(acc, res, rules, accepted) ==
    IF res = <<>> THEN acc
    ELSE ram_loop(
             IF Head(res).type \in DOMAIN rules /\ Head(res).type \in accepted
             THEN run_rules(acc, Head(res).type, rules[Head(res).type], Head(res).groups)
             ELSE acc,
             Tail(res), rules, accepted)

\* do_ram (lines 171-183): ret starts empty
do_ram(res, rules, accepted) ==
    ram_loop([ret |-> <<>>, calls |-> <<>>], res, rules, accepted)

(***************************************************************************)
(* do_globals (lines 150-155)                                              *)
(***************************************************************************)
\* what glob.analyze() returns: a value that names the analyzer
AnalyzeGlobal(glob) == [rule |-> glob]

\* nodes of lines 151-153
do_globals(globs) == [i \in 1..Len(globs) |-> AnalyzeGlobal(globs[i])]

(***************************************************************************)
(* Key names the normalisation is applied to: up to MaxTokens tokens       *)
(***************************************************************************)
MaxTokens == 3

UuidTail == <<"-", "a", "a", "-", "b", "b", "-", "c", "c", "-", "d", "d", "-", "e", "e">>
MyId == <<"m", "y", "i", "d">>
Svc == <<"s", "v", "c">>

Tokens ==
    { CeleryPrefix, AggregatePrefix, TriggerSuffix, PidboxSuffix,
      UserQueueSuffix, UsMarker, UuidTail, MyId, Svc,
      <<"U", "S", ":">>, <<":">>, <<"-">>, <<"7">> }

RECURSIVE Concat(_)
Concat(parts) == IF parts = <<>> THEN <<>> ELSE Head(parts) \o Concat(Tail(parts))

Names == { Concat(ts) : ts \in UNION { [1..n -> Tokens] : n \in 0..MaxTokens } }

(***************************************************************************)
(* run: which branches a behaviour selects (lines 127, 141, 143, 145)      *)
(***************************************************************************)
\* the test without is_all
Selected_without_all(branch, mode) == mode = branch

\* self.behaviour == branch or is_all
Selected(branch, mode) == mode = branch \/ mode = "all"

(***************************************************************************)
(* Inputs of the application                                               *)
(***************************************************************************)
MaxRuns == 2
MaxLimit == 2

\* keys of the store, in the order SCAN returns them
Pool ==
    << [name |-> <<"a", ":", "1">>, type |-> "string"],
       [name |-> <<"z", ":", "1">>, type |-> "zset"],
       [name |-> <<"a", ":", "U", "S", ":", "7">>, type |-> "string"],
       [name |-> MyId \o TriggerSuffix, type |-> "hash"] >>

\* the elements of a finite set of integers in increasing order
RECURSIVE Ascending(_)
Ascending(I) == IF I = {} THEN <<>> ELSE <<Min(I)>> \o Ascending(I \ {Min(I)})

\* the stores: every sub-sequence of Pool
Stores ==
    { [k \in 1..Cardinality(I) |-> Pool[Ascending(I)[k]]] : I \in SUBSET (1..Len(Pool)) }

\* the redis_version strings of server_info
VersionStrings ==
    { <<"2", ".", "4", ".", "0">>, <<"2", ".", "6", ".", "0">>, <<"2", ".", "1", "0", ".", "1">>, <<"1", ".", "8", ".", "2">>,
      <<"3", ".", "0", ".", "5">>, <<"3">>, <<"2">>, <<"2", ".", "6", ".", "x">> }

\* how RmaRedis(...) or redis.info() may fail: with the ConnectionError that
\* the name means in application.py, with redis.exceptions.ResponseError, or
\* with the ConnectionError of redis.exceptions, which line 53 catches only if
\* a star import of lines 9-11 binds the name to it
ConnectFailures == {"ConnectionError", "ResponseError", "redis.ConnectionError"}

\* the exit statuses of a failed connection: sys.exit(-1) of lines 55 and 58,
\* or 1 when the exception is not caught
FailureExits(e) == IF e = "redis.ConnectionError" THEN {-1, 1} ELSE {-1}

\* filters['types'] mapped to type ids, or REDIS_TYPE_ID_ALL (lines 96-99)
TypeFilters == { Types, {"zset"}, {"string"} }

\* filters['behaviour'], or 'all' (lines 101-104)
Behaviours == {"global", "scanner", "ram", "all"}

VARIABLES
    nm,      \* the raw key name under normalisation
    masked,  \* re.sub(pattern, ':US:1', nm)
    out1,    \* normalize(nm)
    out2,    \* normalize(normalize(nm))
    npc,     \* "raw", "masked", "once", "twice" ("off" under Spec)
    pc,               \* where the process is
    cls_globals,      \* RmaApplication.globals (class attribute, line 74)
    cls_types_rules,  \* RmaApplication.types_rules (class attribute, lines 76-82)
    store,            \* the keys of the store the application is connected to
    server_info,      \* version_str while check_redis_version runs
    limit,            \* self.limit
    types,            \* self.types
    behaviour,        \* self.behaviour
    keys,             \* keys of run(), lines 129-131: the type buckets in dict order
    cursor,           \* how many keys of the store the scanner has examined
    grouped,          \* keys of run() after line 136
    str_res,          \* str_res of run()
    scanner_open,     \* inside the with block of line 128
    printed,          \* the arguments of the reporter.print calls of the run
    exit_code,        \* the status the process exited with (0: it has not)
    runs,             \* run() invocations of the process
    log               \* the calls of the run, in order

normvars == <<nm, masked, out1, out2, npc>>
clsvars == <<cls_globals, cls_types_rules>>
selfvars == <<limit, types, behaviour>>
runvars == <<keys, cursor, grouped, str_res, scanner_open>>
vars == <<nm, masked, out1, out2, npc, pc, cls_globals, cls_types_rules, store,
          server_info, limit, types, behaviour, keys, cursor, grouped, str_res,
          scanner_open, printed, exit_code, runs, log>>

Event(ev, type, rule) == [ev |-> ev, type |-> type, rule |-> rule]

\* the process before any RmaApplication is constructed: the class body has
\* run (lines 73-82)
AppStart ==
    /\ pc = "start"
    /\ cls_globals = <<>>
    /\ cls_types_rules = [t \in Types |-> <<>>]
    /\ store = <<>>
    /\ server_info = <<>>
    /\ limit = 0
    /\ types = {}
    /\ behaviour = ""
    /\ keys = <<>>
    /\ cursor = 0
    /\ grouped = <<>>
    /\ str_res = <<>>
    /\ scanner_open = FALSE
    /\ printed = <<>>
    /\ exit_code = 0
    /\ runs = 0
    /\ log = <<>>

Init ==
    /\ AppStart
    /\ nm = <<>>
    /\ masked = <<>>
    /\ out1 = <<>>
    /\ out2 = <<>>
    /\ npc = "off"

(***************************************************************************)
(* __init__ and connect_to_redis                                           *)
(***************************************************************************)
\* RmaApplication(...) up to redis.info() of check_redis_version (lines
\* 84-91, 48-50, 63-64): a new instance, connected to some store, or the
\* except clauses of lines 53-58.  No run() is in progress: the locals of
\* run are empty.
Connect ==
    /\ pc \in {"start", "idle"}
    /\ runs < MaxRuns
    /\ limit' = 0
    /\ types' = {}
    /\ behaviour' = ""
    /\ \E st \in Stores :
        /\ store' = st
        /\ \/ \E v \in VersionStrings :
                /\ server_info' = v
                /\ pc' = "checking"
                /\ exit_code' = 0
           \/ \E e \in ConnectFailures :
                /\ server_info' = <<>>
                /\ pc' = "aborted"
                /\ exit_code' \in FailureExits(e)
    /\ UNCHANGED <<normvars, clsvars, runvars, printed, runs, log>>

\* lines 65-70 and 50-52, then the rest of __init__ (lines 93-104)
CheckVersion ==
    /\ pc = "checking"
    /\ \/ /\ VersionValueError(server_info) \/ VersionIndexError(server_info)
          /\ pc' = "aborted"
          /\ exit_code' = 1
          /\ UNCHANGED <<server_info, selfvars>>
       \/ /\ ~VersionValueError(server_info) /\ ~VersionIndexError(server_info)
          /\ ~check_redis_version(server_info)
          /\ pc' = "aborted"
          /\ exit_code' = -1
          /\ UNCHANGED <<server_info, selfvars>>
       \/ /\ ~VersionValueError(server_info) /\ ~VersionIndexError(server_info)
          /\ check_redis_version(server_info)
          /\ pc' = "constructed"
          /\ server_info' = <<>>
          /\ exit_code' = 0
          /\ \E l \in 0..MaxLimit : limit' = LimitOf(l)
          /\ \E f \in TypeFilters : types' = f
          /\ \E b \in Behaviours : behaviour' = b
    /\ UNCHANGED <<normvars, clsvars, store, runvars, printed, runs, log>>

(***************************************************************************)
(* run (lines 122-148)                                                     *)
(***************************************************************************)
\* lines 123-129: the registries are appended to, the scanner is entered
RunStart ==
    /\ pc \in {"constructed", "idle"}
    /\ runs < MaxRuns
    /\ cls_types_rules' = init_types_rules(cls_types_rules)
    /\ cls_globals' = init_globals(cls_globals)
    /\ str_res' = <<>>
    /\ scanner_open' = TRUE
    /\ keys' = <<>>
    /\ cursor' = 0
    /\ grouped' = <<>>
    /\ printed' = <<>>
    /\ runs' = runs + 1
    /\ log' = <<Event("scan_enter", "", "")>>
    /\ pc' = "scanning"
    /\ UNCHANGED <<normvars, store, server_info, selfvars, exit_code>>

\* the index in the store of the next record scanner.scan(limit) yields: the
\* next key of an accepted type among the first limit keys (0: none is left)
NextYield ==
    LET last == IF Len(store) < limit THEN Len(store) ELSE limit
        rest == { i \in (cursor + 1)..last : store[i].type \in types }
    IN IF rest = {} THEN 0 ELSE Min(rest)

\* keys[v["type"]].append(v) on the defaultdict (line 131)
KeysAppend(ks, v) ==
    IF \E i \in 1..Len(ks) : ks[i].type = v.type
    THEN [i \in 1..Len(ks) |->
            IF ks[i].type = v.type
            THEN [type |-> ks[i].type, records |-> Append(ks[i].records, v)]
            ELSE ks[i]]
    ELSE Append(ks, [type |-> v.type, records |-> <<v>>])

\* one iteration of the loop of lines 130-131
ScanYield ==
    /\ pc = "scanning"
    /\ NextYield # 0
    /\ keys' = KeysAppend(keys, store[NextYield])
    /\ cursor' = NextYield
    /\ log' = Append(log, Event("scan_yield", store[NextYield].type, ""))
    /\ UNCHANGED <<normvars, pc, clsvars, store, server_info, selfvars, grouped,
                   str_res, scanner_open, printed, exit_code, runs>>

\* the scan is exhausted; line 136 groups every type bucket
Aggregate ==
    /\ pc = "scanning"
    /\ NextYield = 0
    /\ \E g \in AggregateAll(keys) : grouped' = g
    /\ log' = log \o [i \in 1..Len(keys) |-> Event("aggregate", keys[i].type, "")]
    /\ pc' = "globals"
    /\ UNCHANGED <<normvars, clsvars, store, server_info, selfvars, keys, cursor,
                   str_res, scanner_open, printed, exit_code, runs>>

\* lines 141-142
StepGlobals ==
    /\ pc = "globals"
    /\ IF Selected("global", behaviour)
       THEN /\ str_res' = Append(str_res, [key |-> "nodes", value |-> do_globals(cls_globals)])
            /\ log' = Append(log, Event("do_globals", "", ""))
       ELSE UNCHANGED <<str_res, log>>
    /\ pc' = "scanner"
    /\ UNCHANGED <<normvars, clsvars, store, server_info, selfvars, keys, cursor,
                   grouped, scanner_open, printed, exit_code, runs>>

\* lines 143-144; the division of line 166 raises ZeroDivisionError when
\* total is 0, which leaves the with block and ends the process
StepScanner ==
    /\ pc = "scanner"
    /\ IF Selected("scanner", behaviour)
       THEN IF Flatten(grouped) # <<>> /\ census_total(Len(store), limit) = 0
            THEN /\ pc' = "crashed"
                 /\ exit_code' = 1
                 /\ scanner_open' = FALSE
                 /\ log' = log \o <<Event("do_scanner", "", ""), Event("scan_exit", "", "")>>
                 /\ UNCHANGED str_res
            ELSE /\ pc' = "ram"
                 /\ str_res' = Append(str_res,
                        [key |-> "keys",
                         value |-> census_rows(Flatten(grouped),
                                               census_total(Len(store), limit))])
                 /\ log' = Append(log, Event("do_scanner", "", ""))
                 /\ UNCHANGED <<exit_code, scanner_open>>
       ELSE /\ pc' = "ram"
            /\ UNCHANGED <<str_res, log, exit_code, scanner_open>>
    /\ UNCHANGED <<normvars, clsvars, store, server_info, selfvars, keys, cursor,
                   grouped, printed, runs>>

\* lines 145-146
StepRam ==
    /\ pc = "ram"
    /\ IF Selected("ram", behaviour)
       THEN /\ str_res' = Append(str_res,
                    [key |-> "stat", value |-> do_ram(grouped, cls_types_rules, types).ret])
            /\ log' = Append(log, Event("do_ram", "", ""))
                        \o do_ram(grouped, cls_types_rules, types).calls
       ELSE UNCHANGED <<str_res, log>>
    /\ pc' = "exit"
    /\ UNCHANGED <<normvars, clsvars, store, server_info, selfvars, keys, cursor,
                   grouped, scanner_open, printed, exit_code, runs>>

\* the end of the with block of line 128: Scanner.__exit__
ExitScanner ==
    /\ pc = "exit"
    /\ scanner_open' = FALSE
    /\ log' = Append(log, Event("scan_exit", "", ""))
    /\ pc' = "print"
    /\ UNCHANGED <<normvars, clsvars, store, server_info, selfvars, keys, cursor,
                   grouped, str_res, printed, exit_code, runs>>

\* self.reporter.print(str_res) (line 148)
ReporterPrint ==
    /\ pc = "print"
    /\ printed' = Append(printed, str_res)
    /\ log' = Append(log, Event("print", "", ""))
    /\ pc' = "done"
    /\ UNCHANGED <<normvars, clsvars, store, server_info, selfvars, keys, cursor,
                   grouped, str_res, scanner_open, exit_code, runs>>

\* run() returns: its locals are gone, the instance and the class remain
RunReturn ==
    /\ pc = "done"
    /\ keys' = <<>>
    /\ cursor' = 0
    /\ grouped' = <<>>
    /\ str_res' = <<>>
    /\ printed' = <<>>
    /\ log' = <<>>
    /\ pc' = "idle"
    /\ UNCHANGED <<normvars, clsvars, store, server_info, selfvars, scanner_open,
                   exit_code, runs>>

Next ==
    \/ Connect
    \/ CheckVersion
    \/ RunStart
    \/ ScanYield
    \/ Aggregate
    \/ StepGlobals
    \/ StepScanner
    \/ StepRam
    \/ ExitScanner
    \/ ReporterPrint
    \/ RunReturn

Spec == Init /\ [][Next]_vars

(***************************************************************************)
(* The normalisation applied to a name, step by step                       *)
(***************************************************************************)
InitNorm ==
    /\ AppStart
    /\ nm \in Names
    /\ masked = <<>>
    /\ out1 = <<>>
    /\ out2 = <<>>
    /\ npc = "raw"

appvars == <<pc, cls_globals, cls_types_rules, store, server_info, limit, types,
             behaviour, keys, cursor, grouped, str_res, scanner_open, printed,
             exit_code, runs, log>>

\* re.sub(pattern, ':US:1', obj["name"]) (line 194)
MaskName ==
    /\ npc = "raw"
    /\ masked' = re_sub_US(nm)
    /\ npc' = "masked"
    /\ UNCHANGED <<nm, out1, out2, appvars>>

\* ptransform(...) of the masked name (line 194)
TransformName ==
    /\ npc = "masked"
    /\ out1' = ptransform(masked)
    /\ npc' = "once"
    /\ UNCHANGED <<nm, masked, out2, appvars>>

\* the normalisation applied to its own output
NormalizeAgain ==
    /\ npc = "once"
    /\ out2' = normalize(out1)
    /\ npc' = "twice"
    /\ UNCHANGED <<nm, masked, out1, appvars>>

NextNorm == MaskName \/ TransformName \/ NormalizeAgain

SpecNorm == InitNorm /\ [][NextNorm]_vars

(***************************************************************************)
(* Normalisation claims (checked under SpecNorm)                           *)
(***************************************************************************)
CeleryExample == CeleryPrefix \o UuidTail
TriggerExample == MyId \o TriggerSuffix
PidboxExample == Svc \o PidboxSuffix
CeleryExpected == <<"c", "e", "l", "e", "r", "y", "-", "t", "a", "s", "k", "-", "m", "e", "t", "a", ":", "a", "a", "-", "b", "b", "-", "c", "c", "-", "d", "d", "-", "e", "e">>
CelerySpecOut == <<"c", "e", "l", "e", "r", "y", "-", "t", "a", "s", "k", "-", "m", "e", "t", "a", "-", "a", "a", "-", "b", "b", ":", "c", "c", "-", "d", "d", "-", "e", "e">>
TriggerExpected == <<"t", "r", "i", "g", "g", "e", "r", "_", "q", "u", "e", "u", "e", "_", "u", "s", "e", "r", "_", "j", "o", "b", ":", "m", "y", "i", "d">>
PidboxExpected == <<"r", "e", "p", "l", "y", ".", "c", "e", "l", "e", "r", "y", ".", "p", "i", "d", "b", "o", "x", ":", "s", "v", "c">>

\* C1 as stated: normalize(normalize(x)) = normalize(x) for every key name x,
\* the names with a transposed prefix or suffix included.
C1_Idempotent_AllNames == npc = "twice" => out2 = out1

\* C1 amended: normalize(normalize(x)) = normalize(x) for every key name x on
\* which no transposition rule fires (the masking alone is idempotent), and it
\* fails for every name that starts with 'celery-task-meta' or with the
\* aggregation-job prefix (each pass adds one more ':').
C1_Idempotent_Untransposed ==
    npc = "twice" =>
        /\ (~Transposes(masked) => out2 = out1)
        /\ (StartsWith(nm, CeleryPrefix) \/ StartsWith(nm, AggregatePrefix)
                => out2 # out1)

\* C1 witness: a name that the mask rewrote, that no transposition rule
\* touched, normalised twice.
C1_Witness == npc = "twice" /\ masked # nm /\ ~Transposes(masked) /\ out2 = out1

\* C2 as stated: the three examples, the celery one with the result
\* 'celery-task-meta-aa-bb:cc-dd-ee'.
C2_Examples_AsStated ==
    npc \in {"once", "twice"} =>
        /\ (nm = CeleryExample => out1 = CelerySpecOut)
        /\ (nm = TriggerExample => out1 = TriggerExpected)
        /\ (nm = PidboxExample => out1 = PidboxExpected)

\* C2 amended: normalize("celery-task-meta-aa-bb-cc-dd-ee") is
\* "celery-task-meta:aa-bb-cc-dd-ee" (the first three '-' segments, ':', the
\* rest); normalize("myid_trigger_queue_user_job") is
\* "trigger_queue_user_job:myid" and normalize("svc.reply.celery.pidbox") is
\* "reply.celery.pidbox:svc".
C2_Examples_Amended ==
    npc \in {"once", "twice"} =>
        /\ (nm = CeleryExample => out1 = CeleryExpected)
        /\ (nm = TriggerExample => out1 = TriggerExpected)
        /\ (nm = PidboxExample => out1 = PidboxExpected)

\* C2 witness: the celery example, normalised.
C2_Witness == npc = "once" /\ nm = CeleryExample /\ out1 = CeleryExpected

(***************************************************************************)
(* Application claims (checked under Spec)                                 *)
(***************************************************************************)
\* the states of a run in which line 136 has grouped the type buckets
Grouped == pc \in {"globals", "scanner", "ram", "exit", "print", "done", "crashed"}

\* the elements of a sequence
Range(seq) == { seq[i] : i \in 1..Len(seq) }

\* the number of groups of a bucket that hold the record
GroupsHolding(bucket, r) ==
    Cardinality({ j \in 1..Len(bucket.groups) : r \in Range(bucket.groups[j].members) })

\* C3: for every type bucket, with templates derived from the normalised
\* names, every scanned record of the type is a member of some template
\* group: no record is omitted, a record with a ':US:<id>' segment included.
C3_GroupingComplete ==
    Grouped =>
        \A i \in 1..Len(grouped) :
            \A r \in Range(keys[i].records) : GroupsHolding(grouped[i], r) >= 1

\* C4: in the grouping handed to do_ram, no record is a member of more than
\* one template group of its type.
C4_GroupingExclusive ==
    (pc = "ram" /\ Selected("ram", behaviour)) =>
        \A i \in 1..Len(grouped) :
            \A r \in Range(keys[i].records) : GroupsHolding(grouped[i], r) <= 1

\* the census tables among the partial results
CensusTables == { str_res[k].value : k \in { j \in 1..Len(str_res) : str_res[j].key = "keys" } }

\* the denominator the census is claimed to use: min(dbsize, limit), a limit
\* of 0 (held as sys.maxsize) meaning none
ClaimedTotal == IF limit = SysMaxSize \/ Len(store) < limit THEN Len(store) ELSE limit

AppendIndex(row) ==
    CHOOSE k \in 1..Len(Flatten(grouped)) :
        Flatten(grouped)[k].type = row.type /\ Flatten(grouped)[k].pattern = row.name

\* C6: the census rows are sorted by count descending, and two rows of equal
\* count are in the order in which they were appended (type order, then
\* template order).
C6_CensusOrder ==
    \A rows \in CensusTables :
        /\ Len(rows) = Len(Flatten(grouped))
        /\ \A i, j \in 1..Len(rows) :
              i < j =>
                  /\ rows[i].count >= rows[j].count
                  /\ (rows[i].count = rows[j].count
                          => AppendIndex(rows[i]) < AppendIndex(rows[j]))

\* C6 witness: a census of three rows whose second appended row has the
\* largest count, so that the sort moved it before a row appended earlier,
\* and whose other two rows tie.
C6_Witness ==
    \E rows \in CensusTables :
        /\ Len(rows) = 3
        /\ AppendIndex(rows[1]) = 2
        /\ AppendIndex(rows[2]) = 1
        /\ rows[2].count = rows[3].count
        /\ rows[1].count > rows[2].count

\* the stat dicts among the partial results
StatDicts == { str_res[k].value : k \in { j \in 1..Len(str_res) : str_res[j].key = "stat" } }

\* the rules whose analyze was called for the type, in call order
RulesCalled(t) ==
    LET IsCall(e) == e.ev = "analyze" /\ e.type = t
        calls == SelectSeq(log, IsCall)
    IN [i \in 1..Len(calls) |-> calls[i].rule]

\* the groups of a type in the grouping
GroupsOf(t) == (CHOOSE b \in Range(grouped) : b.type = t).groups

\* C7: in do_ram the rules of a type are invoked in registration order, and
\* the statistic stored under the type is exactly the output of the last
\* registered rule (for a type with two rules the second, not a merge); for
\* zset it is the output of the key-name-cost rule.
C7_LastWriteWins ==
    \A stat \in StatDicts :
        /\ DOMAIN stat = { t \in types : \E b \in Range(grouped) : b.type = t }
        /\ \A t \in DOMAIN stat :
              /\ RulesCalled(t) = cls_types_rules[t]
              /\ stat[t] = Analyze(RuleTable[t][Len(RuleTable[t])], GroupsOf(t),
                                   total_keys(GroupsOf(t)))
              /\ (t = "zset" => stat[t].rule = "KeyString")
              /\ (t = "string" => stat[t].rule = "ValueString")

\* C7 witness: a stat dict with a string entry (two rules) and a zset entry.
C7_Witness ==
    \E stat \in StatDicts :
        /\ {"string", "zset"} \subseteq DOMAIN stat
        /\ stat["string"].rule = "ValueString"
        /\ stat["zset"].rule = "KeyString"
        /\ RulesCalled("string") = <<"KeyString", "ValueString">>

\* the version gate as claimed: major > 2, or major = 2 and minor >= 6
Supported(version_str) ==
    /\ ~VersionValueError(version_str)
    /\ LET v == VersionTuple(version_str)
       IN v[1] > 2 \/ (v[1] = 2 /\ Len(v) >= 2 /\ v[2] >= 6)

\* C8: the application proceeds only if the store reports major > 2 or
\* (major = 2 and minor >= 6); for every other version, and for a connection
\* or protocol failure, it aborts with a non-zero exit before any scan call
\* and before anything is rendered, and nothing follows the abort.
C8_VersionGate ==
    /\ [](pc = "aborted" =>
            exit_code # 0 /\ log = <<>> /\ printed = <<>> /\ ~scanner_open)
    /\ [][pc = "checking" =>
            /\ (pc' = "constructed" => Supported(server_info))
            /\ (~Supported(server_info) => pc' = "aborted")]_vars
    /\ [][pc = "aborted" => pc' = "aborted"]_vars

\* C8 witness: the store reported "2.4.0" and the process has exited with -1.
C8_Witness ==
    /\ pc = "aborted"
    /\ server_info = <<"2", ".", "4", ".", "0">>
    /\ exit_code = -1

\* the number of analyze calls of the rule for the type in the log
CallCount(t, rule) ==
    Cardinality({ i \in 1..Len(log) :
        log[i].ev = "analyze" /\ log[i].type = t /\ log[i].rule = rule })

\* C9: whatever runs came before, a run uses exactly the rule list of the
\* registration table for each type and exactly one global analyzer: each
\* rule is invoked once per type and 'nodes' has one entry.
C9_NoStateBetweenRuns ==
    pc \in {"scanning", "globals", "scanner", "ram", "exit", "print", "done"} =>
        /\ cls_types_rules = RuleTable
        /\ Len(cls_globals) = 1
        /\ \A k \in 1..Len(str_res) :
              str_res[k].key = "nodes" => Len(str_res[k].value) = 1
        /\ \A t \in Types : \A i \in 1..Len(RuleTable[t]) :
              CallCount(t, RuleTable[t][i]) <= 1

\* the calls of the log without the analyze calls of the rules
MainLog == LET IsMain(e) == e.ev # "analyze" IN SelectSeq(log, IsMain)

\* the accepted keys among the first min(dbsize, limit) keys of the store
Scannable ==
    LET last == IF Len(store) < limit THEN Len(store) ELSE limit
        Accepted(r) == r.type \in types
    IN SelectSeq(TakeFirst(store, last), Accepted)

\* the types of a sequence of records in order of first appearance
RECURSIVE TypesInOrder(_)
TypesInOrder(recs) ==
    IF recs = <<>> THEN <<>>
    ELSE LET front == TypesInOrder(TakeFirst(recs, Len(recs) - 1))
             t == recs[Len(recs)].type
         IN IF t \in Range(front) THEN front ELSE Append(front, t)

\* the branches a mode is claimed to run, in order
ClaimedBranches(mode) ==
    CASE mode = "global" -> <<"global">>
      [] mode = "scanner" -> <<"scanner">>
      [] mode = "ram" -> <<"ram">>
      [] mode = "all" -> <<"global", "scanner", "ram">>

BranchCall(b) ==
    CASE b = "global" -> "do_globals" [] b = "scanner" -> "do_scanner" [] b = "ram" -> "do_ram"

BranchKey(b) ==
    CASE b = "global" -> "nodes" [] b = "scanner" -> "keys" [] b = "ram" -> "stat"

\* C10: run() consumes the scan to exhaustion and groups every type, then
\* executes exactly the branches of the mode ('all': global, scanner, ram, in
\* that order), releases the scanner scope, and hands the partial results, in
\* that order, to one render call.
C10_ModeRouting ==
    /\ (printed # <<>> => ~scanner_open)
    /\ (pc = "done" =>
          LET br == ClaimedBranches(behaviour)
          IN /\ MainLog =
                  <<Event("scan_enter", "", "")>>
                  \o [i \in 1..Len(Scannable) |-> Event("scan_yield", Scannable[i].type, "")]
                  \o [i \in 1..Len(TypesInOrder(Scannable)) |->
                         Event("aggregate", TypesInOrder(Scannable)[i], "")]
                  \o [i \in 1..Len(br) |-> Event(BranchCall(br[i]), "", "")]
                  \o <<Event("scan_exit", "", ""), Event("print", "", "")>>
             /\ Len(printed) = 1
             /\ [i \in 1..Len(printed[1]) |-> printed[1][i].key]
                  = [i \in 1..Len(br) |-> BranchKey(br[i])]
             /\ [i \in 1..Len(grouped) |-> grouped[i].type] = TypesInOrder(Scannable))

\* C10 witness: a run in mode 'all' over three scanned keys has rendered.
C10_Witness ==
    /\ pc = "done"
    /\ behaviour = "all"
    /\ Len(Scannable) = 3
    /\ Len(printed) = 1
    /\ Len(printed[1]) = 3
====
